---- MODULE Spec2Model ----
(***************************************************************************)
(* Model of .github/ai-code-reviewer/review.py: the pull-request review    *)
(* bot.  Text is modelled as Python models it: a str is a sequence of      *)
(* characters (one-character strings; a character outside ASCII is named   *)
(* by its code point, "U+5DEE"), so that split, join, slicing, substring   *)
(* tests and len are computed rather than assumed.                         *)
(***************************************************************************)
EXTENDS Integers, Sequences, FiniteSets, TLC

(***************************************************************************)
(* Bounds of the model.                                                    *)
(***************************************************************************)
\* longest raw diff, in lines, that FilterSpec enumerates
MaxLines == 3
\* ReviewSpec enumerates the diffs whose length is within TruncSlack of the threshold
TruncSlack == 12

(***************************************************************************)
(* Python str operations.                                                  *)
(***************************************************************************)
\* needle in hay
IsSubstring(needle, hay) ==
    \E i \in 0..(Len(hay) - Len(needle)) :
        SubSeq(hay, i + 1, i + Len(needle)) = needle

\* s.startswith(prefix)
startswith(s, prefix) ==
    /\ Len(prefix) <= Len(s)
    /\ SubSeq(s, 1, Len(prefix)) = prefix

\* s[n:]
SliceFrom(s, n) == SubSeq(s, n + 1, Len(s))

\* s[:n]
SliceTo(s, n) == SubSeq(s, 1, IF n < Len(s) THEN n ELSE Len(s))

\* s.split(sep) for a one-character sep: always at least one piece
split(s, sep) ==
    LET P == {i \in 1..Len(s) : s[i] = sep}
        n == Cardinality(P)
        pos(k) == IF k = 0 THEN 0
                  ELSE IF k = n + 1 THEN Len(s) + 1
                  ELSE CHOOSE p \in P : Cardinality({q \in P : q < p}) = k - 1
    IN  [k \in 1..(n + 1) |-> SubSeq(s, pos(k - 1) + 1, pos(k) - 1)]

\* sep.join(pieces)
RECURSIVE join(_, _)
join(sep, pieces) ==
    IF Len(pieces) = 0 THEN <<>>
    ELSE IF Len(pieces) = 1 THEN pieces[1]
    ELSE pieces[1] \o sep \o join(sep, Tail(pieces))

\* s.rfind(c) for a one-character c, 1-based; 0 when c does not occur
rfind(s, c) ==
    LET P == {i \in 1..Len(s) : s[i] = c}
    IN  IF P = {} THEN 0 ELSE CHOOSE p \in P : \A q \in P : q <= p

UpperCase == <<"A", "B", "C", "D", "E", "F", "G", "H", "I", "J", "K", "L", "M", "N", "O", "P", "Q", "R", "S", "T", "U", "V", "W", "X", "Y", "Z">>
LowerCase == <<"a", "b", "c", "d", "e", "f", "g", "h", "i", "j", "k", "l", "m", "n", "o", "p", "q", "r", "s", "t", "u", "v", "w", "x", "y", "z">>

\* s.lower()
lower(s) ==
    [i \in 1..Len(s) |->
        IF \E k \in 1..26 : UpperCase[k] = s[i]
        THEN LowerCase[CHOOSE k \in 1..26 : UpperCase[k] = s[i]]
        ELSE s[i]]

\* the characters str.strip() removes
Whitespace == {" ", "\t", "\n", "\r", "\f"}

\* not s.strip()
IsBlank(s) == \A i \in 1..Len(s) : s[i] \in Whitespace

\* os.path.splitext(p)[1]: the suffix from the last dot of the last path
\* component, unless that component has only leading dots before it
splitext(p) ==
    LET sepIndex == rfind(p, "/")
        dotIndex == rfind(p, ".")
    IN  IF /\ dotIndex > sepIndex
           /\ \E k \in (sepIndex + 1)..(dotIndex - 1) : p[k] # "."
        THEN SubSeq(p, dotIndex, Len(p))
        ELSE <<>>

\* str(n) for a natural number n
Digits == <<"0", "1", "2", "3", "4", "5", "6", "7", "8", "9">>
RECURSIVE IntToStr(_)
IntToStr(n) ==
    IF n < 10 THEN <<Digits[n + 1]>>
    ELSE IntToStr(n \div 10) \o <<Digits[(n % 10) + 1]>>

(***************************************************************************)
(* Module constants of review.py.                                          *)
(***************************************************************************)
CODE_EXTENSIONS == {
    <<".", "p", "y">>, <<".", "j", "s">>, <<".", "t", "s">>, <<".", "t", "s", "x">>, <<".", "j", "s", "x">>,
    <<".", "g", "o">>, <<".", "r", "s">>, <<".", "j", "a", "v", "a">>, <<".", "k", "t">>,
    <<".", "c">>, <<".", "c", "p", "p">>, <<".", "h">>, <<".", "h", "p", "p">>,
    <<".", "r", "b">>, <<".", "p", "h", "p">>, <<".", "s", "w", "i", "f", "t">>,
    <<".", "c", "s">>, <<".", "s", "c", "a", "l", "a">>, <<".", "c", "l", "j">>,
    <<".", "s", "h">>, <<".", "b", "a", "s", "h">>, <<".", "z", "s", "h">> }

EXCLUDED_PATHS == {
    <<"n", "o", "d", "e", "_", "m", "o", "d", "u", "l", "e", "s", "/">>,
    <<"v", "e", "n", "d", "o", "r", "/">>,
    <<"_", "_", "p", "y", "c", "a", "c", "h", "e", "_", "_", "/">>,
    <<".", "g", "i", "t", "/">>,
    <<"d", "i", "s", "t", "/">>,
    <<"b", "u", "i", "l", "d", "/">>,
    <<".", "n", "e", "x", "t", "/">> }

\* 'diff --git'
HeaderPrefix == <<"d", "i", "f", "f", " ", "-", "-", "g", "i", "t">>

(***************************************************************************)
(* filter_diff                                                             *)
(***************************************************************************)
\* any(excluded in file_path for excluded in EXCLUDED_PATHS)
is_excluded(file_path) == \E excluded \in EXCLUDED_PATHS : IsSubstring(excluded, file_path)

\* ext.lower() in CODE_EXTENSIONS
is_code(file_path) == lower(splitext(file_path)) \in CODE_EXTENSIONS

\* as IncludeFile, the deny-list forgotten
IncludeFile_CodeOnly(file_path) == is_code(file_path)

\* include_file = is_code and not is_excluded
IncludeFile(file_path) == is_code(file_path) /\ ~is_excluded(file_path)

\* parts[2][2:]
FilePathOf(parts) == SliceFrom(parts[3], 2)

\* as HasPath, the guard admitting any header line with both words of the prefix
HasPath_TwoTokens(parts) == Len(parts) >= 2

\* len(parts) >= 4
HasPath(parts) == Len(parts) >= 4

\* parts[k] raises IndexError (k counted from 0, as in the source)
IndexRaises(parts, k) == Len(parts) <= k

\* visiting this line raises: the header test reaches parts[2] and it is not there
LineRaises(line) ==
    /\ startswith(line, HeaderPrefix)
    /\ HasPath(split(line, " "))
    /\ IndexRaises(split(line, " "), 2)

\* filter_diff(diff_text) raises instead of returning
FilterRaises(diff_text) ==
    \E i \in 1..Len(split(diff_text, "\n")) : LineRaises(split(diff_text, "\n")[i])

\* as NextInclude, the new value accumulated onto the old one
NextInclude_Accumulate(line, include_file) ==
    IF startswith(line, HeaderPrefix)
    THEN LET parts == split(line, " ")
         IN  IF HasPath(parts) THEN include_file \/ IncludeFile(FilePathOf(parts))
             ELSE include_file
    ELSE include_file

\* as NextInclude, the flag dropped at an empty line
NextInclude_EmptyLineEnds(line, include_file) ==
    IF startswith(line, HeaderPrefix)
    THEN LET parts == split(line, " ")
         IN  IF HasPath(parts) THEN IncludeFile(FilePathOf(parts)) ELSE include_file
    ELSE include_file /\ line # <<>>

\* the value of include_file after the header test of one line
NextInclude(line, include_file) ==
    IF startswith(line, HeaderPrefix)
    THEN LET parts == split(line, " ")
         IN  IF HasPath(parts) THEN IncludeFile(FilePathOf(parts)) ELSE include_file
    ELSE include_file

\* as FilterLoop, the line appended before the header test, under the flag of
\* the section before
RECURSIVE FilterLoop_AppendFirst(_, _, _, _)
FilterLoop_AppendFirst(lines, i, include_file, filtered_lines) ==
    IF i > Len(lines) THEN filtered_lines
    ELSE FilterLoop_AppendFirst(lines, i + 1, NextInclude(lines[i], include_file),
                                IF include_file THEN Append(filtered_lines, lines[i])
                                ELSE filtered_lines)

\* as FilterLoop, a header line of an included file appended in the header
\* branch as well
RECURSIVE FilterLoop_HeaderTwice(_, _, _, _)
FilterLoop_HeaderTwice(lines, i, include_file, filtered_lines) ==
    IF i > Len(lines) THEN filtered_lines
    ELSE LET inc == NextInclude(lines[i], include_file)
             kept == IF inc /\ startswith(lines[i], HeaderPrefix)
                     THEN Append(filtered_lines, lines[i]) ELSE filtered_lines
         IN  FilterLoop_HeaderTwice(lines, i + 1, inc,
                                    IF inc THEN Append(kept, lines[i]) ELSE kept)

\* the loop of filter_diff from line i on: filtered_lines at the end
RECURSIVE FilterLoop(_, _, _, _)
FilterLoop(lines, i, include_file, filtered_lines) ==
    IF i > Len(lines) THEN filtered_lines
    ELSE LET inc == NextInclude(lines[i], include_file)
         IN  FilterLoop(lines, i + 1, inc,
                        IF inc THEN Append(filtered_lines, lines[i]) ELSE filtered_lines)

\* include_file at line 157, for each line the loop visits from line i on
RECURSIVE IncludeFlags(_, _, _)
IncludeFlags(lines, i, include_file) ==
    IF i > Len(lines) THEN <<>>
    ELSE LET inc == NextInclude(lines[i], include_file)
         IN  <<inc>> \o IncludeFlags(lines, i + 1, inc)

\* as FilteredLines, include_file starting out true
FilteredLines_InitiallyTrue(diff_text) == FilterLoop(split(diff_text, "\n"), 1, TRUE, <<>>)

\* filtered_lines when the loop has ended
FilteredLines(diff_text) == FilterLoop(split(diff_text, "\n"), 1, FALSE, <<>>)

filter_diff(diff_text) == join(<<"\n">>, FilteredLines(diff_text))

(***************************************************************************)
(* JSON values as json.load / json.loads return them.                      *)
(***************************************************************************)
JNum(n)       == [kind |-> "num", num |-> n, str |-> <<>>, obj |-> <<>>]
JStr(s)       == [kind |-> "str", num |-> 0, str |-> s,    obj |-> <<>>]
JObj(entries) == [kind |-> "obj", num |-> 0, str |-> <<>>, obj |-> entries]
KV(k, v)      == [key |-> k, val |-> v]

\* key in d, for a dict d
HasKey(d, key) == \E i \in 1..Len(d.obj) : d.obj[i].key = key

\* d[key], for a dict d that has the key
Get(d, key) == d.obj[CHOOSE i \in 1..Len(d.obj) : d.obj[i].key = key].val

\* d[key] raises TypeError unless d is a dict and KeyError unless the key is there
CanGet(d, key) == d.kind = "obj" /\ HasKey(d, key)

\* str(v) and the f-string conversion, for a number or a string
PyStr(v) == IF v.kind = "num" THEN IntToStr(v.num) ELSE v.str

(***************************************************************************)
(* The environment of one run: os.environ and the event file.              *)
(***************************************************************************)
NoFile      == [exists |-> FALSE, valid |-> FALSE, event |-> JObj(<<>>)]
BadJsonFile == [exists |-> TRUE,  valid |-> FALSE, event |-> JObj(<<>>)]
EventFile(event) == [exists |-> TRUE, valid |-> TRUE, event |-> event]

EventPath == <<"/", "e", ".", "j", "s", "o", "n">>

EventFiles == {
    NoFile,
    BadJsonFile,
    EventFile(JObj(<<>>)),
    EventFile(JObj(<<KV("number", JNum(7))>>)),
    EventFile(JObj(<<KV("pull_request", JObj(<<KV("number", JNum(5))>>))>>)),
    EventFile(JObj(<<KV("pull_request", JObj(<<KV("number", JNum(12))>>)),
                     KV("number", JNum(7))>>)),
    EventFile(JObj(<<KV("pull_request", JObj(<<>>)), KV("number", JNum(7))>>)),
    EventFile(JObj(<<KV("pull_request", JObj(<<>>))>>)) }

Refs == {
    <<>>,
    <<"r", "e", "f", "s", "/", "h", "e", "a", "d", "s", "/", "m", "a", "i", "n">>,
    <<"r", "e", "f", "s", "/", "p", "u", "l", "l", "/", "1", "2", "3", "/", "m", "e", "r", "g", "e">>,
    <<"r", "e", "f", "s", "/", "p", "u", "l", "l", "/">>,
    <<"r", "e", "f", "s", "/", "p", "u", "l", "l">> }

Repos == { <<>>, <<"o", "/", "r">> }

ApiKeys == { <<>>, <<"k">> }

Environs ==
    { [GITHUB_EVENT_PATH |-> pf[1], event_file |-> pf[2], GITHUB_REF |-> r,
       GITHUB_REPOSITORY |-> g, GROQ_API_KEY |-> k] :
        pf \in ({EventPath} \X EventFiles) \cup {<< <<>>, NoFile >>},
        r \in Refs, g \in Repos, k \in ApiKeys }

(***************************************************************************)
(* What the external commands and the completion service can answer.       *)
(***************************************************************************)
HeaderOf(path) == HeaderPrefix \o <<" ", "a", "/">> \o path \o <<" ", "b", "/">> \o path

Lines(ls) == join(<<"\n">>, ls)

\* raw diffs the hosting platform or git can print
RawDiffs == {
    <<>>,
    <<" ", "\n">>,
    Lines(<<HeaderOf(<<"a", ".", "p", "y">>), <<"+", "x">>>>),
    Lines(<<HeaderOf(<<"v", "e", "n", "d", "o", "r", "/", "l", "i", "b", ".", "j", "s">>), <<"+", "x">>, HeaderOf(<<"n", "o", "d", "e", "_", "m", "o", "d", "u", "l", "e", "s", "/", "x", ".", "t", "s">>), <<"+", "y">>>>),
    Lines(<<HeaderOf(<<"s", "r", "c", "/", "a", "p", "p", ".", "p", "y">>), <<"+", "x">>, HeaderOf(<<"R", "E", "A", "D", "M", "E", ".", "m", "d">>), <<"+", "y">>, <<>>>>) }

\* error output of a failed gh pr diff
ErrorTexts == {
    <<>>,
    <<"n", "o", "t", " ", "f", "o", "u", "n", "d">>,
    <<"H", "T", "T", "P", " ", "4", "0", "6">>,
    <<"t", "o", "o", "_", "l", "a", "r", "g", "e">>,
    <<"t", "o", "o", " ", "l", "a", "r", "g", "e", " ", "4", "0", " ", "6">> }

Completed(rc, out, err) == [returncode |-> rc, stdout |-> out, stderr |-> err]

PrDiffResults ==
    { Completed(0, d, <<>>) : d \in RawDiffs }
    \cup { Completed(0, Lines(<<HeaderOf(<<"a", ".", "p", "y">>), <<"+", "x">>>>), <<"H", "T", "T", "P", " ", "4", "0", "6">>) }
    \cup { Completed(1, <<>>, e) : e \in ErrorTexts }

\* the text gh pr view prints, as json.loads reads it
JsonText(valid, value) == [valid |-> valid, value |-> value]

PrViewResults ==
    { Completed(1, JsonText(FALSE, JObj(<<>>)), <<"n", "o", "t", " ", "f", "o", "u", "n", "d">>),
      Completed(0, JsonText(FALSE, JObj(<<>>)), <<>>),
      Completed(0, JsonText(TRUE, JObj(<<KV("baseRefName", JStr(<<"m", "a", "i", "n">>))>>)), <<>>),
      Completed(0, JsonText(TRUE, JObj(<<KV("baseRefName", JStr(<<"m", "a", "i", "n">>)),
                                         KV("headRefName", JStr(<<"f", "e", "a", "t", "u", "r", "e", "-", "x">>))>>)), <<>>),
      Completed(0, JsonText(TRUE, JObj(<<KV("headRefName", JStr(<<"m", "a", "i", "n">>)),
                                         KV("baseRefName", JStr(<<"d", "e", "v">>))>>)), <<>>) }

GitDiffResults ==
    { Completed(0, d, <<>>) : d \in RawDiffs }
    \cup { Completed(128, <<>>, <<"b", "a", "d", " ", "r", "e", "v", "i", "s", "i", "o", "n">>) }

\* response.choices[0].message.content, or the request raising
Raised(e)   == [ok |-> FALSE, content |-> <<>>, error |-> e]
Returned(c) == [ok |-> TRUE, content |-> c, error |-> "none"]

CompletionResults == { Returned(<<"L", "G", "T", "M">>), Returned(<<>>), Raised("APIError") }

CommentResults == { Completed(0, <<>>, <<>>), Completed(1, <<>>, <<"n", "o", "t", " ", "f", "o", "u", "n", "d">>) }

(***************************************************************************)
(* State of one run.                                                       *)
(***************************************************************************)
VARIABLES
    pc,               \* the statement of main() the run is at, or "exit"
    environ,          \* os.environ and the event file, fixed for the run
    pr_number,        \* main: pr_number
    primary,          \* get_pr_diff: result of gh pr diff
    pr_info,          \* get_pr_diff: pr_info, once gh pr view has answered
    diff,             \* main: diff
    filtered_diff,    \* main: filtered_diff
    refiltered_diff,  \* filter_diff applied to filtered_diff (FilterSpec)
    file_path,        \* the path under test (InclusionSpec)
    review,           \* main: review
    calls,            \* every subprocess.run and completion request made, in order,
                      \* each with what it answered
    comments,         \* the comments that exist on the pull request
    outcome,          \* the return or raise that ended the run
    exit_status       \* the process exit status, once pc = "exit"

vars == <<pc, environ, pr_number, primary, pr_info, diff, filtered_diff,
          refiltered_diff, file_path, review, calls, comments, outcome, exit_status>>

NoResult == Completed(0, <<>>, <<>>)

(***************************************************************************)
(* get_pr_number                                                           *)
(***************************************************************************)
PullSegment == <<"p", "u", "l", "l">>

\* the loop over ref.split('/'): the segment after the first 'pull' that has one
RefNumber(ref) ==
    LET parts == split(ref, "/")
        I == {i \in 1..Len(parts) : parts[i] = PullSegment /\ i + 1 <= Len(parts)}
    IN  IF I = {} THEN Raised("ValueError")
        ELSE Returned(parts[(CHOOSE i \in I : \A j \in I : i <= j) + 1])

\* lines 27-34: the ref, when the event file gave nothing
FromRef(env) ==
    IF IsSubstring(<<"/", "p", "u", "l", "l", "/">>, env.GITHUB_REF)
    THEN RefNumber(env.GITHUB_REF)
    ELSE Raised("ValueError")

\* lines 19-24: the event file
FromEvent(env) ==
    LET event == env.event_file.event
    IN  IF ~env.event_file.valid THEN Raised("JSONDecodeError")
        ELSE IF HasKey(event, "pull_request")
        THEN IF CanGet(Get(event, "pull_request"), "number")
             THEN Returned(PyStr(Get(Get(event, "pull_request"), "number")))
             ELSE Raised("KeyError")
        ELSE IF HasKey(event, "number")
        THEN Returned(PyStr(Get(event, "number")))
        ELSE FromRef(env)

get_pr_number(env) ==
    IF env.GITHUB_EVENT_PATH # <<>> /\ env.event_file.exists
    THEN FromEvent(env)
    ELSE FromRef(env)

get_repo(env) == env.GITHUB_REPOSITORY

(***************************************************************************)
(* The commands and the request the run issues.                            *)
(***************************************************************************)
Run(cmd, result) ==
    [fn |-> "subprocess.run", cmd |-> cmd, rc |-> result.returncode, out |-> result.stdout]

\* cmd.extend(['--repo', repo]) if repo
WithRepo(cmd, repo) == IF repo # <<>> THEN cmd \o << <<"-", "-", "r", "e", "p", "o">>, repo >> ELSE cmd

PrDiffCmd(pr, repo) == WithRepo(<< <<"g", "h">>, <<"p", "r">>, <<"d", "i", "f", "f">>, pr >>, repo)

PrViewCmd(pr, repo) ==
    WithRepo(<< <<"g", "h">>, <<"p", "r">>, <<"v", "i", "e", "w">>, pr, <<"-", "-", "j", "s", "o", "n">>, <<"b", "a", "s", "e", "R", "e", "f", "N", "a", "m", "e", ",", "h", "e", "a", "d", "R", "e", "f", "N", "a", "m", "e">> >>, repo)

\* as RefRange, base and head exchanged
RefRange_Swapped(base, head) == <<"o", "r", "i", "g", "i", "n", "/">> \o PyStr(head) \o <<".", ".", ".", "o", "r", "i", "g", "i", "n", "/">> \o PyStr(base)

\* f'origin/{base}...origin/{head}'
RefRange(base, head) == <<"o", "r", "i", "g", "i", "n", "/">> \o PyStr(base) \o <<".", ".", ".", "o", "r", "i", "g", "i", "n", "/">> \o PyStr(head)

GitDiffCmd(base, head) == << <<"g", "i", "t">>, <<"d", "i", "f", "f">>, RefRange(base, head) >>

\* the fixed header and footer of the comment, each standing for its whole text
COMMENT_HEADER == <<"## comment header\n\n">>
COMMENT_FOOTER == <<"\n\n---\n*comment footer*">>

CommentBody(text) == COMMENT_HEADER \o text \o COMMENT_FOOTER

\* as PrCommentCmd, the repository scope left off
PrCommentCmd_NoRepo(pr, text, repo) ==
    << <<"g", "h">>, <<"p", "r">>, <<"c", "o", "m", "m", "e", "n", "t">>, pr, <<"-", "-", "b", "o", "d", "y">>, CommentBody(text) >>

PrCommentCmd(pr, text, repo) ==
    WithRepo(<< <<"g", "h">>, <<"p", "r">>, <<"c", "o", "m", "m", "e", "n", "t">>, pr, <<"-", "-", "b", "o", "d", "y">>, CommentBody(text) >>, repo)

\* the instruction template, standing for its whole text
REVIEW_PROMPT == <<"REVIEW_PROMPT">>

\* the character threshold of review_code
MAX_DIFF_CHARS == 30000

\* "\n\n... (差分が大きいため一部省略されました)"
TRUNCATION_MARKER == <<"\n", "\n", ".", ".", ".", " ", "(", "U+5DEE", "U+5206", "U+304C", "U+5927", "U+304D", "U+3044", "U+305F", "U+3081", "U+4E00", "U+90E8", "U+7701", "U+7565", "U+3055", "U+308C", "U+307E", "U+3057", "U+305F", ")">>

\* as Truncate, a diff of exactly the threshold length cut as well
Truncate_AtThreshold(d) ==
    IF Len(d) >= MAX_DIFF_CHARS THEN SliceTo(d, MAX_DIFF_CHARS) \o TRUNCATION_MARKER ELSE d

\* lines 172-173
Truncate(d) ==
    IF Len(d) > MAX_DIFF_CHARS THEN SliceTo(d, MAX_DIFF_CHARS) \o TRUNCATION_MARKER ELSE d

Create(content, response) ==
    [fn |-> "chat.completions.create", cmd |-> <<content>>,
     rc |-> IF response.ok THEN 0 ELSE 1, out |-> response.content]

\* as HasSignature, the second signature forgotten
HasSignature_OnlyTooLarge(stderr) == IsSubstring(<<"t", "o", "o", "_", "l", "a", "r", "g", "e">>, stderr)

\* 'too_large' in result.stderr or '406' in result.stderr
HasSignature(stderr) == IsSubstring(<<"t", "o", "o", "_", "l", "a", "r", "g", "e">>, stderr) \/ IsSubstring(<<"4", "0", "6">>, stderr)

(***************************************************************************)
(* The two ways a run ends.                                                *)
(***************************************************************************)
\* as Exit0, with a sys.exit(1) that also runs when main() returns
Exit0_Status1(how) == pc' = "exit" /\ outcome' = how /\ exit_status' = 1

\* main() returns: the interpreter exits with status 0
Exit0(how) == pc' = "exit" /\ outcome' = how /\ exit_status' = 0

\* as Exit1, the handler printing the error without sys.exit(1)
Exit1_Printed(how) == pc' = "exit" /\ outcome' = how /\ exit_status' = 0

\* an exception reaches the handlers of the __main__ block: sys.exit(1)
Exit1(how) == pc' = "exit" /\ outcome' = how /\ exit_status' = 1

(***************************************************************************)
(* main(), one action per external call or stage.                          *)
(***************************************************************************)
Init ==
    /\ pc = "get_pr_number"
    /\ environ \in Environs
    /\ pr_number = <<>>
    /\ primary = NoResult
    /\ pr_info = JObj(<<>>)
    /\ diff = <<>>
    /\ filtered_diff = <<>>
    /\ refiltered_diff = <<>>
    /\ file_path = <<>>
    /\ review = <<>>
    /\ calls = <<>>
    /\ comments = <<>>
    /\ outcome = "running"
    /\ exit_status = 0

\* main, line 204
GetPrNumber ==
    /\ pc = "get_pr_number"
    /\ LET r == get_pr_number(environ)
       IN  IF r.ok
           THEN /\ pr_number' = r.content
                /\ pc' = "gh_pr_diff"
                /\ UNCHANGED <<outcome, exit_status>>
           ELSE /\ Exit1(r.error)
                /\ UNCHANGED pr_number
    /\ UNCHANGED <<environ, primary, pr_info, diff, filtered_diff, refiltered_diff,
                   file_path, review, calls, comments>>

\* get_pr_diff, lines 98-112 and 131-132: the primary retrieval
GhPrDiff ==
    /\ pc = "gh_pr_diff"
    /\ \E result \in PrDiffResults :
        /\ calls' = Append(calls, Run(PrDiffCmd(pr_number, get_repo(environ)), result))
        /\ primary' = result
        /\ IF result.returncode = 0
           THEN /\ diff' = result.stdout
                /\ pc' = "filter"
                /\ UNCHANGED <<outcome, exit_status>>
           ELSE IF HasSignature(result.stderr)
           THEN /\ pc' = "gh_pr_view"
                /\ UNCHANGED <<diff, outcome, exit_status>>
           ELSE /\ Exit1("pr_diff_failed")
                /\ UNCHANGED diff
    /\ UNCHANGED <<environ, pr_number, pr_info, filtered_diff, refiltered_diff,
                   file_path, review, comments>>

\* get_pr_diff, lines 116-123: the metadata query of the fallback
GhPrView ==
    /\ pc = "gh_pr_view"
    /\ \E result \in PrViewResults :
        /\ calls' = Append(calls, Run(PrViewCmd(pr_number, get_repo(environ)), result))
        /\ IF result.returncode # 0
           THEN Exit1("pr_view_failed") /\ UNCHANGED pr_info
           ELSE IF ~result.stdout.valid
           THEN Exit1("pr_view_failed") /\ UNCHANGED pr_info
           ELSE IF ~(CanGet(result.stdout.value, "baseRefName")
                     /\ CanGet(result.stdout.value, "headRefName"))
           THEN Exit1("pr_view_failed") /\ pr_info' = result.stdout.value
           ELSE /\ pr_info' = result.stdout.value
                /\ pc' = "git_diff"
                /\ UNCHANGED <<outcome, exit_status>>
    /\ UNCHANGED <<environ, pr_number, primary, diff, filtered_diff, refiltered_diff,
                   file_path, review, comments>>

\* get_pr_diff, lines 126-129: the generic diff of the fallback
GitDiff ==
    /\ pc = "git_diff"
    /\ \E result \in GitDiffResults :
        /\ calls' = Append(calls, Run(GitDiffCmd(Get(pr_info, "baseRefName"),
                                                 Get(pr_info, "headRefName")), result))
        /\ IF result.returncode # 0
           THEN Exit1("git_diff_failed") /\ UNCHANGED diff
           ELSE /\ diff' = result.stdout
                /\ pc' = "filter"
                /\ UNCHANGED <<outcome, exit_status>>
    /\ UNCHANGED <<environ, pr_number, primary, pr_info, filtered_diff, refiltered_diff,
                   file_path, review, comments>>

\* as FilterStage, the check of the filtered diff left out
FilterStage_NoFilteredCheck ==
    /\ pc = "filter"
    /\ IF IsBlank(diff)
       THEN Exit0("raw_blank") /\ UNCHANGED filtered_diff
       ELSE /\ filtered_diff' = filter_diff(diff)
            /\ pc' = "review_code"
            /\ UNCHANGED <<outcome, exit_status>>
    /\ UNCHANGED <<environ, pr_number, primary, pr_info, diff, refiltered_diff,
                   file_path, review, calls, comments>>

\* main, lines 210-219: the two blank checks around filter_diff
FilterStage ==
    /\ pc = "filter"
    /\ IF IsBlank(diff)
       THEN Exit0("raw_blank") /\ UNCHANGED filtered_diff
       ELSE IF FilterRaises(diff)
       THEN Exit1("IndexError") /\ UNCHANGED filtered_diff
       ELSE /\ filtered_diff' = filter_diff(diff)
            /\ IF IsBlank(filtered_diff')
               THEN Exit0("filtered_blank")
               ELSE pc' = "review_code" /\ UNCHANGED <<outcome, exit_status>>
    /\ UNCHANGED <<environ, pr_number, primary, pr_info, diff, refiltered_diff,
                   file_path, review, calls, comments>>

\* as ReviewCode, the request sent without looking at the credential
ReviewCode_NoKeyCheck ==
    /\ pc = "review_code"
    /\ \E response \in CompletionResults :
            /\ calls' = Append(calls, Create(REVIEW_PROMPT \o Truncate(filtered_diff), response))
            /\ IF response.ok
               THEN /\ review' = response.content
                    /\ pc' = "post_comment"
                    /\ UNCHANGED <<outcome, exit_status>>
               ELSE /\ Exit1("review_failed")
                    /\ UNCHANGED review
    /\ UNCHANGED <<environ, pr_number, primary, pr_info, diff, filtered_diff,
                   refiltered_diff, file_path, comments>>

\* review_code, lines 165-187
ReviewCode ==
    /\ pc = "review_code"
    /\ IF environ.GROQ_API_KEY = <<>>
       THEN /\ Exit1("no_credential")
            /\ UNCHANGED <<review, calls>>
       ELSE \E response \in CompletionResults :
            /\ calls' = Append(calls, Create(REVIEW_PROMPT \o Truncate(filtered_diff), response))
            /\ IF response.ok
               THEN /\ review' = response.content
                    /\ pc' = "post_comment"
                    /\ UNCHANGED <<outcome, exit_status>>
               ELSE /\ Exit1("review_failed")
                    /\ UNCHANGED review
    /\ UNCHANGED <<environ, pr_number, primary, pr_info, diff, filtered_diff,
                   refiltered_diff, file_path, comments>>

\* as PostComment, the comment command run a second time when it fails
PostComment_Retry ==
    /\ pc = "post_comment"
    /\ \E result \in CommentResults :
        /\ IF result.returncode = 0
           THEN /\ calls' = Append(calls, Run(PrCommentCmd(pr_number, review,
                                                          get_repo(environ)), result))
                /\ comments' = Append(comments, [pr |-> pr_number,
                                                 repo |-> get_repo(environ),
                                                 body |-> CommentBody(review)])
                /\ Exit0("published")
           ELSE /\ calls' = calls \o << Run(PrCommentCmd(pr_number, review,
                                                        get_repo(environ)), result),
                                        Run(PrCommentCmd(pr_number, review,
                                                        get_repo(environ)), result) >>
                /\ Exit1("comment_failed")
                /\ UNCHANGED comments
    /\ UNCHANGED <<environ, pr_number, primary, pr_info, diff, filtered_diff,
                   refiltered_diff, file_path, review>>

\* post_comment, lines 192-199, and the end of main
PostComment ==
    /\ pc = "post_comment"
    /\ \E result \in CommentResults :
        /\ calls' = Append(calls, Run(PrCommentCmd(pr_number, review, get_repo(environ)),
                                      result))
        /\ IF result.returncode = 0
           THEN /\ comments' = Append(comments, [pr |-> pr_number,
                                                 repo |-> get_repo(environ),
                                                 body |-> CommentBody(review)])
                /\ Exit0("published")
           ELSE /\ Exit1("comment_failed")
                /\ UNCHANGED comments
    /\ UNCHANGED <<environ, pr_number, primary, pr_info, diff, filtered_diff,
                   refiltered_diff, file_path, review>>

Next ==
    \/ GetPrNumber
    \/ GhPrDiff
    \/ GhPrView
    \/ GitDiff
    \/ FilterStage
    \/ ReviewCode
    \/ PostComment

Spec == Init /\ [][Next]_vars

(***************************************************************************)
(* filter_diff on its own: FilterSpec applies it, once and again, to every *)
(* raw diff of at most MaxLines lines drawn from SampleLines;              *)
(* InclusionSpec applies it to one file section for every path of          *)
(* SamplePaths.                                                            *)
(***************************************************************************)
SampleLines == {
    HeaderOf(<<"a", ".", "p", "y">>),
    HeaderOf(<<"R", ".", "m", "d">>),
    HeaderOf(<<"d", "i", "s", "t", "/", "b", ".", "j", "s">>),
    <<"d", "i", "f", "f", " ", "-", "-", "g", "i", "t">>,
    <<"d", "i", "f", "f", " ", "-", "-", "g", "i", "t", " ", "a", "/", "x", ".", "c">>,
    <<"d", "i", "f", "f", " ", "-", "-", "g", "i", "t", " ", "a", " ", "b">>,
    <<"d", "i", "f", "f", " ", "-", "-", "g", "i", "t", "x", " ", "a", "/", "M", ".", "P", "Y", " ", "b", "/", "M", ".", "P", "Y">>,
    <<"+", "x">>,
    <<>> }

SampleDiffs == { Lines(ls) : ls \in UNION { [1..n -> SampleLines] : n \in 0..MaxLines } }

SampleDirs == { <<>>, <<"s", "r", "c", "/">>, <<"v", "e", "n", "d", "o", "r", "/">>, <<"a", "/", "d", "i", "s", "t", "/">>, <<"m", "y", ".", "g", "i", "t", "/">>, <<"n", "o", "d", "e", "_", "m", "o", "d", "u", "l", "e", "s", "/">>,
                <<"x", ".", "d", "/">>, <<"r", "e", "b", "u", "i", "l", "d", "/">> }

SampleStems == { <<"a">>, <<>>, <<".">>, <<"x", ".", "t", "a", "r">>, <<"d", "i", "s", "t">> }

SampleExts == { <<>>, <<".", "p", "y">>, <<".", "P", "Y">>, <<".", "m", "d">>, <<".", "J", "s">>, <<".">>, <<".", "p", "y", "c">>, <<".", "h">> }

SamplePaths == { d \o s \o e : d \in SampleDirs, s \in SampleStems, e \in SampleExts }

InitPure ==
    /\ pc = "filter_input"
    /\ environ \in { e \in Environs : e.GITHUB_EVENT_PATH = <<>> /\ e.GITHUB_REF = <<>>
                                      /\ e.GITHUB_REPOSITORY = <<>> /\ e.GROQ_API_KEY = <<>> }
    /\ pr_number = <<>>
    /\ primary = NoResult
    /\ pr_info = JObj(<<>>)
    /\ filtered_diff = <<>>
    /\ refiltered_diff = <<>>
    /\ review = <<>>
    /\ calls = <<>>
    /\ comments = <<>>
    /\ outcome = "running"
    /\ exit_status = 0

InitFilter ==
    /\ InitPure
    /\ file_path = <<>>
    /\ diff \in SampleDiffs

InitInclusion ==
    /\ InitPure
    /\ file_path \in SamplePaths
    /\ diff = Lines(<<HeaderOf(file_path), <<"+", "x">>>>)

\* filtered_diff = filter_diff(diff), or the exception it raises
ApplyFilter ==
    /\ pc = "filter_input"
    /\ IF FilterRaises(diff)
       THEN /\ pc' = "raised"
            /\ outcome' = "IndexError"
            /\ UNCHANGED filtered_diff
       ELSE /\ filtered_diff' = filter_diff(diff)
            /\ pc' = "filtered"
            /\ UNCHANGED outcome
    /\ UNCHANGED <<environ, pr_number, primary, pr_info, diff, refiltered_diff, file_path,
                   review, calls, comments, exit_status>>

\* filter_diff(filtered_diff)
ApplyFilterAgain ==
    /\ pc = "filtered"
    /\ refiltered_diff' = filter_diff(filtered_diff)
    /\ pc' = "refiltered"
    /\ UNCHANGED <<environ, pr_number, primary, pr_info, diff, filtered_diff, file_path,
                   review, calls, comments, outcome, exit_status>>

NextFilter == ApplyFilter \/ ApplyFilterAgain

FilterSpec == InitFilter /\ [][NextFilter]_vars

InclusionSpec == InitInclusion /\ [][NextFilter]_vars

(***************************************************************************)
(* review_code and post_comment on diffs around the truncation threshold:  *)
(* ReviewSpec starts where main() calls review_code, after gh pr diff      *)
(* printed a one-file diff of a length within TruncSlack of                *)
(* MAX_DIFF_CHARS and the filter kept all of it.                           *)
(***************************************************************************)
LongHead == Lines(<<HeaderOf(<<"a", ".", "p", "y">>), <<"+">>>>)

LongDiff(n) == LongHead \o [i \in 1..(n - Len(LongHead)) |-> "x"]

LongDiffs == { LongDiff(n) : n \in (MAX_DIFF_CHARS - TruncSlack)..(MAX_DIFF_CHARS + TruncSlack) }

InitReview ==
    /\ pc = "review_code"
    /\ environ \in { e \in Environs : e.GITHUB_EVENT_PATH = <<>>
                                      /\ e.GITHUB_REF = <<"r", "e", "f", "s", "/", "p", "u", "l", "l", "/", "1", "2", "3", "/", "m", "e", "r", "g", "e">> }
    /\ pr_number = get_pr_number(environ).content
    /\ diff \in LongDiffs
    /\ primary = Completed(0, diff, <<>>)
    /\ pr_info = JObj(<<>>)
    /\ filtered_diff = filter_diff(diff)
    /\ refiltered_diff = <<>>
    /\ file_path = <<>>
    /\ review = <<>>
    /\ calls = << Run(PrDiffCmd(pr_number, get_repo(environ)), primary) >>
    /\ comments = <<>>
    /\ outcome = "running"
    /\ exit_status = 0

NextReview == ReviewCode \/ PostComment

ReviewSpec == InitReview /\ [][NextReview]_vars

(***************************************************************************)
(* Reading the call log.                                                   *)
(***************************************************************************)
IsCommand(c, words) ==
    /\ c.fn = "subprocess.run"
    /\ Len(c.cmd) >= Len(words)
    /\ SubSeq(c.cmd, 1, Len(words)) = words

IsPrDiff(c)    == IsCommand(c, << <<"g", "h">>, <<"p", "r">>, <<"d", "i", "f", "f">> >>)
IsPrView(c)    == IsCommand(c, << <<"g", "h">>, <<"p", "r">>, <<"v", "i", "e", "w">> >>)
IsGitDiff(c)   == IsCommand(c, << <<"g", "i", "t">>, <<"d", "i", "f", "f">> >>)
IsPrComment(c) == IsCommand(c, << <<"g", "h">>, <<"p", "r">>, <<"c", "o", "m", "m", "e", "n", "t">> >>)
IsReview(c)    == c.fn = "chat.completions.create"

IsRetrieval(c) == IsPrDiff(c) \/ IsPrView(c) \/ IsGitDiff(c)

CallIdx == 1..Len(calls)

\* a retrieval command printed the raw diff: gh pr diff or git diff exited 0
Fetched == \E i \in CallIdx : (IsPrDiff(calls[i]) \/ IsGitDiff(calls[i])) /\ calls[i].rc = 0

Exited == pc = "exit"

(***************************************************************************)
(* C1  The external calls of a run happen only in the order retrieval,     *)
(* review request, comment creation, each guarded by the stage before it:  *)
(* no retrieval before the identifier is resolved; the review request only *)
(* after a non-blank raw diff was fetched whose filtered diff is non-blank;*)
(* the comment command only after the review request returned.  A blank    *)
(* raw or filtered diff, or a failed stage, ends the run with no later     *)
(* stage's call made.                                                      *)
(***************************************************************************)
C1_StageOrder ==
    /\ \A i \in CallIdx : \A j \in CallIdx :
          i < j =>
            /\ IsReview(calls[j]) => IsRetrieval(calls[i])
            /\ IsPrComment(calls[i]) => FALSE
            /\ IsReview(calls[i]) => IsPrComment(calls[j])
    /\ calls # <<>> => get_pr_number(environ).ok /\ IsPrDiff(calls[1])
    /\ \A j \in CallIdx :
          IsReview(calls[j]) =>
            /\ j > 1
            /\ Fetched
            /\ (IsPrDiff(calls[j - 1]) \/ IsGitDiff(calls[j - 1]))
            /\ calls[j - 1].rc = 0
            /\ diff = calls[j - 1].out
            /\ ~IsBlank(diff)
            /\ filtered_diff = filter_diff(diff)
            /\ ~IsBlank(filtered_diff)
    /\ \A j \in CallIdx :
          IsPrComment(calls[j]) =>
            /\ j > 1
            /\ IsReview(calls[j - 1])
            /\ calls[j - 1].rc = 0
    /\ Exited /\ outcome \in {"raw_blank", "filtered_blank"} =>
          \A i \in CallIdx : IsRetrieval(calls[i])
    /\ Exited /\ (IsBlank(diff) \/ IsBlank(filter_diff(diff))) =>
          \A i \in CallIdx : IsRetrieval(calls[i])
    /\ Exited /\ ~get_pr_number(environ).ok => calls = <<>>
    /\ Exited /\ ~Fetched => \A i \in CallIdx : IsRetrieval(calls[i])
    /\ \A i \in CallIdx :
          calls[i].rc # 0 /\ ~(IsPrDiff(calls[i]) /\ HasSignature(primary.stderr)) =>
            Exited /\ i = Len(calls)

\* scenario 1: only vendor/ and node_modules/ files, so nothing to review and no comment
C1_Witness ==
    /\ Exited
    /\ outcome = "filtered_blank"
    /\ ~IsBlank(diff)
    /\ IsSubstring(<<"v", "e", "n", "d", "o", "r", "/", "l", "i", "b", ".", "j", "s">>, diff)
    /\ exit_status = 0
    /\ Len(calls) = 1
    /\ comments = <<>>

(***************************************************************************)
(* C2  The exit status is 0 exactly when the run ended with the comment    *)
(* published, with a blank raw diff or with a blank filtered diff; a       *)
(* failure of identifier resolution, of diff retrieval on either path, of  *)
(* the review stage or of comment creation gives exit status 1.            *)
(***************************************************************************)
Published == calls # <<>> /\ IsPrComment(calls[Len(calls)]) /\ calls[Len(calls)].rc = 0

EndedRawBlank == Fetched /\ IsBlank(diff)

EndedFilteredBlank == Fetched /\ ~IsBlank(diff) /\ IsBlank(filter_diff(diff))

ResolutionFailed == ~get_pr_number(environ).ok

RetrievalFailed == calls # <<>> /\ ~Fetched

ReviewFailed ==
    /\ Fetched /\ ~IsBlank(diff) /\ ~IsBlank(filter_diff(diff))
    /\ \/ environ.GROQ_API_KEY = <<>>
       \/ \E i \in CallIdx : IsReview(calls[i]) /\ calls[i].rc # 0

CommentFailed == \E i \in CallIdx : IsPrComment(calls[i]) /\ calls[i].rc # 0

C2_ExitStatus ==
    Exited =>
        /\ exit_status \in {0, 1}
        /\ exit_status = 0 <=> (Published \/ EndedRawBlank \/ EndedFilteredBlank)
        /\ (ResolutionFailed \/ RetrievalFailed \/ ReviewFailed \/ CommentFailed)
              => exit_status = 1
        /\ exit_status = 1
              => (ResolutionFailed \/ RetrievalFailed \/ ReviewFailed \/ CommentFailed)

\* a run that failed at the last stage, after the review was obtained
C2_Witness == Exited /\ CommentFailed /\ exit_status = 1 /\ comments = <<>>

(***************************************************************************)
(* C3  (as stated) Whenever the credential is absent the run ends with     *)
(* exit status 1 and no request is sent to the completion service,         *)
(* whatever the raw and filtered diffs are.                                *)
(***************************************************************************)
NoCredential == environ.GROQ_API_KEY = <<>>

C3_AsStated ==
    NoCredential =>
        /\ \A i \in CallIdx : ~IsReview(calls[i])
        /\ Exited => exit_status = 1

(***************************************************************************)
(* C3  (amended) Whenever the credential is absent no request is sent to   *)
(* the completion service, and the run ends with exit status 1 unless it   *)
(* stopped before the review stage on a blank raw diff or a blank filtered *)
(* diff, where it exits 0 without looking at the credential.               *)
(***************************************************************************)
C3_NoCredential ==
    NoCredential =>
        /\ \A i \in CallIdx : ~IsReview(calls[i])
        /\ comments = <<>>
        /\ Exited => (exit_status = 0 <=> (EndedRawBlank \/ EndedFilteredBlank))
        /\ Exited /\ ~(EndedRawBlank \/ EndedFilteredBlank) => exit_status = 1

\* the credential is missed at the review stage, after a reviewable diff was fetched
C3_Witness ==
    /\ NoCredential
    /\ Exited
    /\ outcome = "no_credential"
    /\ ~IsBlank(filtered_diff)
    /\ exit_status = 1
    /\ \A i \in CallIdx : ~IsReview(calls[i])

(***************************************************************************)
(* C4  The fallback path is entered if and only if gh pr diff exited       *)
(* non-zero and its error output contains 'too_large' or '406'.  A primary *)
(* success returns the primary output verbatim with no further retrieval   *)
(* command; a primary failure without a signature is fatal and neither the *)
(* metadata query nor the generic diff is invoked.                         *)
(***************************************************************************)
PrimaryDone == calls # <<>>

FallbackEntered == pc = "gh_pr_view" \/ \E i \in CallIdx : IsPrView(calls[i])

TooLarge == <<"t", "o", "o", "_", "l", "a", "r", "g", "e">>
NotAcceptable == <<"4", "0", "6">>

C4_FallbackTrigger ==
    /\ ~PrimaryDone => ~FallbackEntered
    /\ PrimaryDone =>
        /\ FallbackEntered <=>
              /\ primary.returncode # 0
              /\ \/ IsSubstring(TooLarge, primary.stderr)
                 \/ IsSubstring(NotAcceptable, primary.stderr)
        /\ ~FallbackEntered => \A i \in CallIdx : ~IsPrView(calls[i]) /\ ~IsGitDiff(calls[i])
        /\ primary.returncode = 0 =>
              /\ diff = primary.stdout
              /\ \A i \in CallIdx : i > 1 => ~IsRetrieval(calls[i])
        /\ primary.returncode # 0 /\ ~FallbackEntered =>
              /\ Exited
              /\ exit_status = 1
              /\ Len(calls) = 1

\* a failure whose error text only resembles a signature is fatal at once
C4_Witness ==
    /\ PrimaryDone
    /\ primary.returncode # 0
    /\ primary.stderr = <<"t", "o", "o", " ", "l", "a", "r", "g", "e", " ", "4", "0", " ", "6">>
    /\ Exited
    /\ Len(calls) = 1

(***************************************************************************)
(* C5  On the fallback path git diff is invoked only after gh pr view      *)
(* succeeded, with the argument origin/<base>...origin/<head> built from   *)
(* the branch names that query returned, and its output is the diff        *)
(* returned.  A failure of the metadata query or of git diff ends the run  *)
(* with no further retrieval attempt.                                      *)
(***************************************************************************)
MetadataOk(c) ==
    /\ c.rc = 0
    /\ c.out.valid
    /\ CanGet(c.out.value, "baseRefName")
    /\ CanGet(c.out.value, "headRefName")

C5_Fallback ==
    /\ \A j \in CallIdx :
          IsGitDiff(calls[j]) =>
            /\ j > 1
            /\ IsPrView(calls[j - 1])
            /\ MetadataOk(calls[j - 1])
            /\ calls[j].cmd =
                 << <<"g", "i", "t">>, <<"d", "i", "f", "f">>,
                    <<"o", "r", "i", "g", "i", "n", "/">> \o Get(calls[j - 1].out.value, "baseRefName").str
                      \o <<".", ".", ".">> \o
                    <<"o", "r", "i", "g", "i", "n", "/">> \o Get(calls[j - 1].out.value, "headRefName").str >>
            /\ calls[j].rc = 0 => diff = calls[j].out
            /\ calls[j].rc # 0 => Exited /\ exit_status = 1 /\ j = Len(calls)
    /\ \A i \in CallIdx :
          IsPrView(calls[i]) /\ ~MetadataOk(calls[i]) =>
            /\ Exited
            /\ exit_status = 1
            /\ i = Len(calls)
    /\ \A i \in CallIdx :
          IsPrView(calls[i]) /\ MetadataOk(calls[i]) =>
            pc = "git_diff" \/ (i < Len(calls) /\ IsGitDiff(calls[i + 1]))

\* scenario 3: base main, head feature-x
C5_Witness ==
    \E j \in CallIdx :
        /\ IsGitDiff(calls[j])
        /\ calls[j].cmd = << <<"g", "i", "t">>, <<"d", "i", "f", "f">>, <<"o", "r", "i", "g", "i", "n", "/", "m", "a", "i", "n", ".", ".", ".", "o", "r", "i", "g", "i", "n", "/", "f", "e", "a", "t", "u", "r", "e", "-", "x">> >>
        /\ calls[j].rc = 0
        /\ pc = "filter"
        /\ diff = calls[j].out
        /\ primary.stderr = <<"t", "o", "o", "_", "l", "a", "r", "g", "e">>

(***************************************************************************)
(* Reading a diff as lines.                                                *)
(***************************************************************************)
\* the lines of a text; the empty text has none
TextLines(text) == IF text = <<>> THEN <<>> ELSE split(text, "\n")

IsHeader(line) == startswith(line, HeaderPrefix)

HeaderLines(lines) == SelectSeq(lines, IsHeader)

\* a[i..] can be read off b[j..] in order, each b[j] used at most once
RECURSIVE SubsequenceFrom(_, _, _, _)
SubsequenceFrom(a, i, b, j) ==
    IF i > Len(a) THEN TRUE
    ELSE IF j > Len(b) THEN FALSE
    ELSE IF a[i] = b[j] THEN SubsequenceFrom(a, i + 1, b, j + 1)
    ELSE SubsequenceFrom(a, i, b, j + 1)

IsSubsequence(a, b) == SubsequenceFrom(a, 1, b, 1)

(***************************************************************************)
(* C6  Filtering is idempotent: filter_diff(filter_diff(D)) equals         *)
(* filter_diff(D) for every diff D, malformed header lines included.       *)
(***************************************************************************)
C6_Idempotent == pc = "refiltered" => refiltered_diff = filtered_diff

\* a kept section that carries a malformed header line, after a dropped section
C6_Witness ==
    /\ pc = "refiltered"
    /\ diff = Lines(<<HeaderOf(<<"R", ".", "m", "d">>), HeaderOf(<<"a", ".", "p", "y">>), <<"d", "i", "f", "f", " ", "-", "-", "g", "i", "t", " ", "a", "/", "x", ".", "c">>>>)
    /\ filtered_diff = Lines(<<HeaderOf(<<"a", ".", "p", "y">>), <<"d", "i", "f", "f", " ", "-", "-", "g", "i", "t", " ", "a", "/", "x", ".", "c">>>>)
    /\ refiltered_diff = filtered_diff

(***************************************************************************)
(* C7  The lines of filter_diff(D) are an order-preserving subsequence of  *)
(* the lines of D, no line added, changed, duplicated or reordered; so are *)
(* its header lines of D's header lines.                                   *)
(***************************************************************************)
C7_Subsequence ==
    pc \in {"filtered", "refiltered"} =>
        /\ IsSubsequence(TextLines(filtered_diff), split(diff, "\n"))
        /\ IsSubsequence(HeaderLines(TextLines(filtered_diff)),
                         HeaderLines(split(diff, "\n")))
        /\ Len(filtered_diff) <= Len(diff)

\* the kept section lies between two dropped ones
C7_Witness ==
    /\ pc = "filtered"
    /\ diff = Lines(<<HeaderOf(<<"d", "i", "s", "t", "/", "b", ".", "j", "s">>), HeaderOf(<<"a", ".", "p", "y">>), HeaderOf(<<"R", ".", "m", "d">>)>>)
    /\ filtered_diff = HeaderOf(<<"a", ".", "p", "y">>)

(***************************************************************************)
(* C8  A path passes the inclusion test if and only if its extension,      *)
(* lower-cased, is in the allow-set and no deny-list fragment is a         *)
(* substring of the path: an allow-listed extension under a deny-listed    *)
(* fragment is excluded, and a path with no extension is never included.   *)
(***************************************************************************)
\* the number of dots a file name starts with
LeadingDots(name) ==
    CHOOSE k \in 0..Len(name) :
        /\ \A i \in 1..k : name[i] = "."
        /\ k < Len(name) => name[k + 1] # "."

\* the extension of a path: what follows the last dot of its file name, dot
\* included, the dots the name starts with not counting
Extension(path) ==
    LET components == split(path, "/")
        name == components[Len(components)]
        stem == SliceFrom(name, LeadingDots(name))
        pieces == split(stem, ".")
    IN  IF Len(pieces) = 1 THEN <<>> ELSE <<".">> \o pieces[Len(pieces)]

Allowed(path) == \E e \in CODE_EXTENSIONS : lower(Extension(path)) = e

Denied(path) == \E fragment \in EXCLUDED_PATHS : IsSubstring(fragment, path)

C8_InclusionTest ==
    pc \in {"filtered", "refiltered"} =>
        /\ IncludeFile(file_path) <=> (Allowed(file_path) /\ ~Denied(file_path))
        /\ filtered_diff = diff <=> (Allowed(file_path) /\ ~Denied(file_path))
        /\ filtered_diff = <<>> <=> ~(Allowed(file_path) /\ ~Denied(file_path))
        /\ Allowed(file_path) /\ Denied(file_path) => filtered_diff = <<>>
        /\ Extension(file_path) = <<>> => filtered_diff = <<>>

\* an allow-listed extension, in upper case, under a deny-listed fragment
C8_Witness ==
    /\ pc = "filtered"
    /\ file_path = <<"r", "e", "b", "u", "i", "l", "d", "/", "x", ".", "t", "a", "r", ".", "P", "Y">>
    /\ Allowed(file_path)
    /\ Denied(file_path)
    /\ filtered_diff = <<>>

(***************************************************************************)
(* C9  A filtered diff of at most 30000 characters is sent to the          *)
(* completion service unchanged; a longer one is sent as its first 30000   *)
(* characters followed by the marker, so with length 30000 plus the marker *)
(* length.                                                                 *)
(***************************************************************************)
\* the diff part of the content of a completion request
SentDiff(c) == SliceFrom(c.cmd[1], Len(REVIEW_PROMPT))

C9_Truncation ==
    \A i \in CallIdx :
        IsReview(calls[i]) =>
            /\ SubSeq(calls[i].cmd[1], 1, Len(REVIEW_PROMPT)) = REVIEW_PROMPT
            /\ Len(filtered_diff) <= MAX_DIFF_CHARS => SentDiff(calls[i]) = filtered_diff
            /\ Len(filtered_diff) > MAX_DIFF_CHARS =>
                  /\ SubSeq(SentDiff(calls[i]), 1, MAX_DIFF_CHARS)
                        = SubSeq(filtered_diff, 1, MAX_DIFF_CHARS)
                  /\ SliceFrom(SentDiff(calls[i]), MAX_DIFF_CHARS) = TRUNCATION_MARKER
                  /\ Len(SentDiff(calls[i])) = MAX_DIFF_CHARS + Len(TRUNCATION_MARKER)

\* one character over the threshold
C9_Witness ==
    /\ Len(filtered_diff) = MAX_DIFF_CHARS + 1
    /\ \E i \in CallIdx :
          /\ IsReview(calls[i])
          /\ Len(SentDiff(calls[i])) = MAX_DIFF_CHARS + Len(TRUNCATION_MARKER)
          /\ SentDiff(calls[i]) # filtered_diff

(***************************************************************************)
(* C10  From an event file that exists and parses, the identifier is the   *)
(* stringified number of the nested pull_request record when that record   *)
(* has one; else the top-level number when there is one, also when a       *)
(* pull_request record without a number is present; else resolution goes   *)
(* on with the ref string.                                                 *)
(***************************************************************************)
EventRead ==
    /\ pc # "get_pr_number"
    /\ environ.GITHUB_EVENT_PATH # <<>>
    /\ environ.event_file.exists
    /\ environ.event_file.valid

\* get_pr_number returned: the run went on to the retrieval
Resolved == ~(Exited /\ calls = <<>>)

C10_EventPriority ==
    EventRead =>
        LET event == environ.event_file.event
        IN  IF HasKey(event, "pull_request")
               /\ CanGet(Get(event, "pull_request"), "number")
            THEN Resolved
                 /\ pr_number = IntToStr(Get(Get(event, "pull_request"), "number").num)
            ELSE IF HasKey(event, "number")
            THEN Resolved /\ pr_number = IntToStr(Get(event, "number").num)
            ELSE IF FromRef(environ).ok
            THEN Resolved /\ pr_number = FromRef(environ).content
            ELSE ~Resolved /\ exit_status = 1

(***************************************************************************)
(* C11  When the event file yields no identifier, the resolver returns <N> *)
(* exactly when the ref has the form .../pull/<N>/... with <N> not empty;  *)
(* otherwise resolution fails, no retrieval command is invoked and the run *)
(* exits with status 1.  The resolver never returns an empty identifier.   *)
(***************************************************************************)
\* the event file gave nothing: not named, not there, or without either number
EventYieldsNothing ==
    \/ environ.GITHUB_EVENT_PATH = <<>>
    \/ ~environ.event_file.exists
    \/ /\ environ.event_file.valid
       /\ ~HasKey(environ.event_file.event, "pull_request")
       /\ ~HasKey(environ.event_file.event, "number")

\* the positions of the segments of ref that follow a segment 'pull' and are not empty
PullNumberAt(ref) ==
    LET segments == split(ref, "/")
    IN  { i \in 2..Len(segments) : segments[i - 1] = <<"p", "u", "l", "l">> /\ segments[i] # <<>> }

C11_RefResolution ==
    (pc # "get_pr_number" /\ EventYieldsNothing) =>
        /\ PullNumberAt(environ.GITHUB_REF) # {} =>
              /\ Resolved
              /\ \E i \in PullNumberAt(environ.GITHUB_REF) :
                    pr_number = split(environ.GITHUB_REF, "/")[i]
        /\ PullNumberAt(environ.GITHUB_REF) = {} =>
              /\ ~Resolved
              /\ Exited
              /\ exit_status = 1
              /\ calls = <<>>
        /\ Resolved => pr_number # <<>>

(***************************************************************************)
(* C12  filter_diff is total: for every text, malformed diffs included     *)
(* (header lines with too few tokens, a token shorter than the path prefix *)
(* marker, the empty text, a text with no header), it returns a text and   *)
(* never raises.                                                           *)
(***************************************************************************)
C12_Total ==
    /\ pc # "raised"
    /\ outcome # "IndexError"
    /\ ~FilterRaises(diff)
    /\ pc \in {"filtered", "refiltered"} =>
          /\ filtered_diff = filter_diff(diff)
          /\ filtered_diff \in Seq({diff[i] : i \in 1..Len(diff)})

\* header lines of two and of three tokens, and a path token of one character
C12_Witness ==
    /\ pc = "filtered"
    /\ diff = Lines(<< <<"d", "i", "f", "f", " ", "-", "-", "g", "i", "t">>, <<"d", "i", "f", "f", " ", "-", "-", "g", "i", "t", " ", "a", "/", "x", ".", "c">>, <<"d", "i", "f", "f", " ", "-", "-", "g", "i", "t", " ", "a", " ", "b">> >>)
    /\ filtered_diff = <<>>

(***************************************************************************)
(* C13  There is no partial success: a run that exits with status 1 has    *)
(* posted no comment, a run that posted a comment exits with status 0, and *)
(* nothing that can fail follows the comment-creation command.             *)
(***************************************************************************)
C13_NoPartialSuccess ==
    /\ Exited /\ exit_status = 1 => comments = <<>>
    /\ comments # <<>> =>
          /\ Exited
          /\ exit_status = 0
          /\ Len(comments) = 1
          /\ IsPrComment(calls[Len(calls)])
          /\ calls[Len(calls)].rc = 0
    /\ \A i \in CallIdx : IsPrComment(calls[i]) => i = Len(calls) /\ Exited
    /\ \A i \in CallIdx : IsPrComment(calls[i]) /\ calls[i].rc # 0 => comments = <<>>

\* the comment is on the pull request and the run has ended well
C13_Witness ==
    /\ Exited
    /\ exit_status = 0
    /\ Len(comments) = 1
    /\ comments[1].body = CommentBody(<<"L", "G", "T", "M">>)

(***************************************************************************)
(* Reading the single pass of filter_diff line by line.                    *)
(***************************************************************************)
DiffLines == split(diff, "\n")

\* whether the loop kept line i of the raw diff
Kept(i) == IncludeFlags(DiffLines, 1, FALSE)[i]

\* the lines of the raw diff for which keep holds, joined
Selected(keep(_)) ==
    LET RECURSIVE Pick(_)
        Pick(i) == IF i > Len(DiffLines) THEN <<>>
                   ELSE (IF keep(i) THEN <<DiffLines[i]>> ELSE <<>>) \o Pick(i + 1)
    IN  Lines(Pick(1))

\* a header line with the path token in place
IsWellFormedHeader(line) == IsHeader(line) /\ Len(split(line, " ")) >= 4

\* the last line at or before line i that satisfies is
LastAtOrBefore(i, is(_)) ==
    LET H == {j \in 1..i : is(DiffLines[j])}
    IN  IF H = {} THEN 0 ELSE CHOOSE j \in H : \A k \in H : k <= j

\* the header line names a path, after a/, that passes the inclusion test
NamesIncludedPath(line) ==
    /\ Len(split(line, " ")) >= 3
    /\ Allowed(SliceFrom(split(line, " ")[3], 2))
    /\ ~Denied(SliceFrom(split(line, " ")[3], 2))

(***************************************************************************)
(* C14  (as stated) At every line that starts with the header prefix the   *)
(* include flag is recomputed from that header's path alone, so a line is  *)
(* emitted if and only if the most recent header line at or before it      *)
(* names a path that passes the inclusion test.                            *)
(***************************************************************************)
EmittedByLastHeader(i) ==
    /\ LastAtOrBefore(i, IsHeader) # 0
    /\ NamesIncludedPath(DiffLines[LastAtOrBefore(i, IsHeader)])

C14_AsStated ==
    pc \in {"filtered", "refiltered"} =>
        /\ \A i \in 1..Len(DiffLines) : Kept(i) <=> EmittedByLastHeader(i)
        /\ filtered_diff = Selected(EmittedByLastHeader)

(***************************************************************************)
(* C14  (amended) At every line that starts with the header prefix and has *)
(* at least four space-separated tokens the include flag is recomputed     *)
(* from that header's path alone and replaces the previous value; a line   *)
(* with the prefix and fewer tokens leaves the flag as it is.  So a line   *)
(* is emitted if and only if the most recent header line of at least four  *)
(* tokens at or before it names a path that passes the inclusion test.     *)
(***************************************************************************)
EmittedByLastWellFormedHeader(i) ==
    /\ LastAtOrBefore(i, IsWellFormedHeader) # 0
    /\ NamesIncludedPath(DiffLines[LastAtOrBefore(i, IsWellFormedHeader)])

C14_FlagReplaced ==
    pc \in {"filtered", "refiltered"} =>
        /\ \A i \in 1..Len(DiffLines) : Kept(i) <=> EmittedByLastWellFormedHeader(i)
        /\ filtered_diff = Selected(EmittedByLastWellFormedHeader)

\* an included section that carries a three-token header line, then a dropped section
C14_Witness ==
    /\ pc = "filtered"
    /\ diff = Lines(<<HeaderOf(<<"a", ".", "p", "y">>), <<"d", "i", "f", "f", " ", "-", "-", "g", "i", "t", " ", "a", "/", "x", ".", "c">>, HeaderOf(<<"R", ".", "m", "d">>)>>)
    /\ filtered_diff = Lines(<<HeaderOf(<<"a", ".", "p", "y">>), <<"d", "i", "f", "f", " ", "-", "-", "g", "i", "t", " ", "a", "/", "x", ".", "c">>>>)

(***************************************************************************)
(* C15  No line that precedes the first header line of D appears in        *)
(* filter_diff(D): the result is that of filtering D from its first header *)
(* line on, and a diff with no header line filters to the empty text.      *)
(***************************************************************************)
\* the position of the first header line, one past the end when there is none
FirstHeader ==
    LET H == {j \in 1..Len(DiffLines) : IsHeader(DiffLines[j])}
    IN  IF H = {} THEN Len(DiffLines) + 1 ELSE CHOOSE j \in H : \A k \in H : j <= k

KeptFromFirstHeader(i) == i >= FirstHeader /\ Kept(i)

C15_NothingBeforeFirstHeader ==
    pc \in {"filtered", "refiltered"} =>
        /\ \A i \in 1..Len(DiffLines) : i < FirstHeader => ~Kept(i)
        /\ filtered_diff = Selected(KeptFromFirstHeader)
        /\ Len(TextLines(filtered_diff)) <= Len(DiffLines) + 1 - FirstHeader
        /\ FirstHeader > Len(DiffLines) => filtered_diff = <<>>

\* a hunk line ahead of the first header is dropped, the same line after it is kept
C15_Witness ==
    /\ pc = "filtered"
    /\ diff = Lines(<< <<"+", "x">>, HeaderOf(<<"a", ".", "p", "y">>), <<"+", "x">> >>)
    /\ filtered_diff = Lines(<< HeaderOf(<<"a", ".", "p", "y">>), <<"+", "x">> >>)

(***************************************************************************)
(* C16  File sections are emitted whole or not at all: each line between a *)
(* header line and the next header line is emitted if and only if that     *)
(* header line is, so the include flag changes only at header lines.       *)
(***************************************************************************)
KeptAsItsHeader(i) ==
    /\ LastAtOrBefore(i, IsHeader) # 0
    /\ Kept(LastAtOrBefore(i, IsHeader))

C16_WholeSections ==
    pc \in {"filtered", "refiltered"} =>
        /\ \A i \in 1..Len(DiffLines) :
              LastAtOrBefore(i, IsHeader) # 0 => (Kept(i) <=> Kept(LastAtOrBefore(i, IsHeader)))
        /\ \A i \in 2..Len(DiffLines) :
              Kept(i) # Kept(i - 1) => IsHeader(DiffLines[i])
        /\ filtered_diff = Selected(KeptAsItsHeader)

\* a section with an empty line in it is kept whole
C16_Witness ==
    /\ pc = "filtered"
    /\ diff = Lines(<< HeaderOf(<<"a", ".", "p", "y">>), <<>>, <<"+", "x">> >>)
    /\ filtered_diff = diff

(***************************************************************************)
(* C17  Nothing is retried: in every run each external operation (primary  *)
(* diff retrieval, metadata query, generic diff, completion request,       *)
(* comment creation) is invoked at most once, so at most one completion    *)
(* request is sent and at most one comment is posted, also after a failure.*)
(***************************************************************************)
Invocations(is(_)) == Cardinality({i \in CallIdx : is(calls[i])})

C17_NoRetry ==
    /\ Invocations(IsPrDiff) <= 1
    /\ Invocations(IsPrView) <= 1
    /\ Invocations(IsGitDiff) <= 1
    /\ Invocations(IsReview) <= 1
    /\ Invocations(IsPrComment) <= 1
    /\ \A i \in CallIdx :
          \/ IsPrDiff(calls[i])
          \/ IsPrView(calls[i])
          \/ IsGitDiff(calls[i])
          \/ IsReview(calls[i])
          \/ IsPrComment(calls[i])
    /\ Len(comments) <= 1
    /\ Len(comments) <= Invocations(IsPrComment)
    /\ \A i \in CallIdx :
          calls[i].rc # 0 =>
            \/ i = Len(calls)
            \/ IsPrDiff(calls[i]) /\ IsPrView(calls[i + 1])

\* every operation of the fallback path ran once and the comment command,
\* the last of them, failed: the run ended there
C17_Witness ==
    /\ Exited
    /\ exit_status = 1
    /\ Len(calls) = 5
    /\ IsPrComment(calls[5])
    /\ calls[5].rc # 0
    /\ comments = <<>>

(***************************************************************************)
(* C18  Repository scoping is uniform: when GITHUB_REPOSITORY is set, the  *)
(* gh commands of the run (pr diff, pr view, pr comment) all end with      *)
(* --repo and its value; when it is absent none of them carries --repo.    *)
(* The comment is created on the identifier and repository for which the   *)
(* diff was retrieved.                                                     *)
(***************************************************************************)
IsGh(c) == IsPrDiff(c) \/ IsPrView(c) \/ IsPrComment(c)

\* the value after --repo in the command, <<>> when the command has no --repo
ScopeOf(c) ==
    LET P == {k \in 1..(Len(c.cmd) - 1) : c.cmd[k] = <<"-", "-", "r", "e", "p", "o">>}
    IN  IF P = {} THEN <<>> ELSE c.cmd[(CHOOSE k \in P : \A q \in P : k <= q) + 1]

CarriesScope(c) == \E k \in 1..Len(c.cmd) : c.cmd[k] = <<"-", "-", "r", "e", "p", "o">>

\* the pull request the command names
TargetOf(c) == c.cmd[4]

C18_UniformScope ==
    /\ \A i \in CallIdx :
          IsGh(calls[i]) =>
            /\ environ.GITHUB_REPOSITORY # <<>> =>
                  /\ CarriesScope(calls[i])
                  /\ ScopeOf(calls[i]) = environ.GITHUB_REPOSITORY
                  /\ calls[i].cmd[Len(calls[i].cmd)] = environ.GITHUB_REPOSITORY
            /\ environ.GITHUB_REPOSITORY = <<>> => ~CarriesScope(calls[i])
            /\ TargetOf(calls[i]) = pr_number
    /\ \A i \in CallIdx : \A j \in CallIdx :
          IsGh(calls[i]) /\ IsGh(calls[j]) =>
            /\ ScopeOf(calls[i]) = ScopeOf(calls[j])
            /\ TargetOf(calls[i]) = TargetOf(calls[j])
    /\ \A k \in 1..Len(comments) :
          \E i \in CallIdx :
            /\ IsPrDiff(calls[i])
            /\ comments[k].pr = TargetOf(calls[i])
            /\ comments[k].repo = ScopeOf(calls[i])

\* a scoped run through the fallback that published its comment
C18_Witness ==
    /\ Exited
    /\ environ.GITHUB_REPOSITORY = <<"o", "/", "r">>
    /\ Len(comments) = 1
    /\ \E i \in CallIdx : IsPrView(calls[i]) /\ CarriesScope(calls[i])
    /\ \E i \in CallIdx : IsPrComment(calls[i]) /\ ScopeOf(calls[i]) = <<"o", "/", "r">>
====
